---- MODULE Spec2Model ----
(***************************************************************************)
(* Model of perf/__init__.py: the Benchmark record (raw runs, warmups,     *)
(* loops, cached samples and median), the BenchmarkSuite dictionary and    *)
(* its versioned JSON load/dump.                                           *)
(*                                                                         *)
(* Python values are tagged records, one field name per type, so that      *)
(* values of different types are unequal the way they are in Python:       *)
(*   None            [t |-> "NoneType"]                                    *)
(*   int n           [t |-> "int", i |-> n]                                *)
(*   float num/den   [t |-> "float", num |-> n, den |-> d]  (exact ratio)  *)
(*   str             [t |-> "str", s |-> <<chars>>]                        *)
(*   list / tuple    [t |-> "list", l |-> seq] / [t |-> "tuple", u |-> seq]*)
(*   dict            [t |-> "dict", d |-> function]                        *)
(* `/` is Python 3 true division (on floats it is the same in Python 2).   *)
(***************************************************************************)
EXTENDS Integers, Sequences, FiniteSets, TLC

VARIABLES heap, suite, ret

vars == <<heap, suite, ret>>

\* ---------------------------------------------------------------- bounds
MaxRuns == 2
MaxLen == 2

\* ---------------------------------------------------------------- values
None == [t |-> "NoneType"]
PyInt(n) == [t |-> "int", i |-> n]
PyStr(chars) == [t |-> "str", s |-> chars]
PyList(items) == [t |-> "list", l |-> items]
PyTuple(items) == [t |-> "tuple", u |-> items]
PyDict(d) == [t |-> "dict", d |-> d]
PySuite(d) == [t |-> "BenchmarkSuite", d |-> d]

RECURSIVE Gcd(_, _)
Gcd(a, b) == IF b = 0 THEN a ELSE Gcd(b, a % b)

Abs(n) == IF n < 0 THEN -n ELSE n

\* a float, kept as the exact ratio num/den in lowest terms, den > 0
PyFloat(n, d) ==
    LET g == Gcd(Abs(n), d)
    IN  [t |-> "float", num |-> n \div g, den |-> d \div g]

IsInt(v) == v.t = "int"
IsNumber(v) == v.t \in {"int", "float"}
IsStr(v) == v.t = "str"

\* numerator and denominator of a number
Num(v) == IF v.t = "int" THEN v.i ELSE v.num
Den(v) == IF v.t = "int" THEN 1 ELSE v.den

\* value > 0, value != 0, a <= b on numbers
Positive(v) == Num(v) > 0
Leq(a, b) == Num(a) * Den(b) <= Num(b) * Den(a)

\* sample / loops, and (a + b) / 2
TrueDiv(v, n) == PyFloat(Num(v), Den(v) * n)
Mean2(a, b) == PyFloat(Num(a) * Den(b) + Num(b) * Den(a), 2 * Den(a) * Den(b))

\* the items of a list or of a tuple
Items(v) == IF v.t = "list" THEN v.l ELSE v.u

\* str.strip() with the blank as the only whitespace character
RECURSIVE LStrip(_)
LStrip(chars) ==
    IF chars # <<>> /\ Head(chars) = " " THEN LStrip(Tail(chars)) ELSE chars

RECURSIVE RStrip(_)
RStrip(chars) ==
    IF chars # <<>> /\ chars[Len(chars)] = " "
    THEN RStrip(SubSeq(chars, 1, Len(chars) - 1))
    ELSE chars

Strip(chars) == RStrip(LStrip(chars))

\* dict.get(key, default) on a dictionary modelled as a function
Get(d, key, default) == IF key \in DOMAIN d THEN d[key] ELSE default

\* d[key] = value
Put(d, key, value) == [k \in DOMAIN d \cup {key} |-> IF k = key THEN value ELSE d[k]]

EmptyDict == [k \in {} |-> None]

\* the outcome of a call: the exception raised ("" when none), its message,
\* and the object
Ok(b) == [exc |-> "", msg |-> "", b |-> b]
Raise(e, msg, b) == [exc |-> e, msg |-> msg, b |-> b]

\* ------------------------------------------------------------- Benchmark
\* attributes of an object whose __init__ has not run yet
Blank ==
    [loops |-> None, inner_loops |-> None, warmups |-> None, runs |-> <<>>,
     samples |-> None, median |-> None, metadata |-> EmptyDict]

_clear_stats_cache(b) == [b EXCEPT !.samples = None, !.median = None]

\* loops_setter without its _clear_stats_cache() call
loops_setter_keeps_cache(b, value) ==
    IF ~(IsInt(value) /\ value.i >= 1)
    THEN Raise("ValueError", "loops must be an int >= 1", b)
    ELSE Ok([b EXCEPT !.loops = value])

loops_setter(b, value) ==
    IF ~(IsInt(value) /\ value.i >= 1)
    THEN Raise("ValueError", "loops must be an int >= 1", b)
    ELSE Ok([_clear_stats_cache(b) EXCEPT !.loops = value])

\* inner_loops_setter letting 0 through
inner_loops_setter_accepts_zero(b, value) ==
    IF ~((IsInt(value) /\ value.i >= 0) \/ value = None)
    THEN Raise("ValueError", "inner_loops must be an int >= 1 or None", b)
    ELSE Ok([_clear_stats_cache(b) EXCEPT !.inner_loops = value])

inner_loops_setter(b, value) ==
    IF ~((IsInt(value) /\ value.i >= 1) \/ value = None)
    THEN Raise("ValueError", "inner_loops must be an int >= 1 or None", b)
    ELSE Ok([_clear_stats_cache(b) EXCEPT !.inner_loops = value])

warmups_setter(b, value) ==
    IF ~(IsInt(value) /\ value.i >= 0)
    THEN Raise("ValueError", "warmups must be an int >= 0", b)
    ELSE Ok([_clear_stats_cache(b) EXCEPT !.warmups = value])

name_getter(b) == Get(b.metadata, "name", None)

name_setter(b, value) ==
    IF ~IsStr(value)
    THEN Raise("TypeError", "name must be a non-empty string", b)
    ELSE IF Strip(value.s) = <<>>
         THEN Raise("TypeError", "name must be a non-empty string", b)
         ELSE Ok([b EXCEPT !.metadata = Put(b.metadata, "name", PyStr(Strip(value.s)))])

\* the element of a one-element set: names the outcome of a call once where
\* the statements after it use it several times
TheOne(S) == CHOOSE x \in S : TRUE

\* Benchmark(name, loops, inner_loops, warmups, metadata)
Benchmark__init__(name, loops, inner_loops, warmups, metadata) ==
    TheOne({IF r1.exc # "" THEN r1 ELSE
    TheOne({IF r2.exc # "" THEN r2 ELSE
    TheOne({IF r3.exc # "" THEN r3 ELSE
            name_setter([_clear_stats_cache([r3.b EXCEPT !.runs = <<>>]) EXCEPT
                            !.metadata = IF metadata # None THEN metadata.d
                                         ELSE EmptyDict],
                        name)
            : r3 \in {warmups_setter(r2.b, warmups)}})
            : r2 \in {inner_loops_setter(r1.b, inner_loops)}})
            : r1 \in {loops_setter(Blank, loops)}})

\* bool(value)
Truthy(v) ==
    CASE v.t = "NoneType" -> FALSE
      [] v.t = "int" -> v.i # 0
      [] v.t = "float" -> v.num # 0
      [] v.t = "str" -> v.s # <<>>
      [] v.t = "list" -> v.l # <<>>
      [] v.t = "tuple" -> v.u # <<>>
      [] v.t = "dict" -> DOMAIN v.d # {}
      [] OTHER -> TRUE

\* get_loops(): loops, times inner_loops when it is set
get_loops(b) ==
    IF ~Truthy(b.loops) THEN Raise("ValueError", "loops is zero", None)
    ELSE Ok(IF b.inner_loops # None THEN b.loops.i * b.inner_loops.i ELSE b.loops.i)

\* run_samples[warmups:]
Slice(items, from) == SubSeq(items, from + 1, Len(items))

RECURSIVE Concat(_)
Concat(seqs) == IF seqs = <<>> THEN <<>> ELSE Head(seqs) \o Concat(Tail(seqs))

\* compute_samples slicing the warmups off the wrong end of the run
compute_samples_drops_tail(b) ==
    LET loops == get_loops(b).b
        perRun == [r \in 1..Len(b.runs) |->
                     LET kept == SubSeq(b.runs[r].u, 1, Len(b.runs[r].u) - b.warmups.i)
                     IN  [k \in 1..Len(kept) |-> TrueDiv(kept[k], loops)]]
    IN  PyTuple(Concat(perRun))

\* the value get_samples() computes when the cache is empty
compute_samples(b) ==
    LET loops == get_loops(b).b
        perRun == [r \in 1..Len(b.runs) |->
                     LET kept == Slice(b.runs[r].u, b.warmups.i)
                     IN  [k \in 1..Len(kept) |-> TrueDiv(kept[k], loops)]]
    IN  PyTuple(Concat(perRun))

\* get_samples(): the returned value and the object with its cache filled
get_samples(b) ==
    IF b.samples # None
    THEN [exc |-> "", msg |-> "", b |-> b, value |-> b.samples]
    ELSE IF get_loops(b).exc # ""
    THEN [exc |-> get_loops(b).exc, msg |-> get_loops(b).msg, b |-> b, value |-> None]
    ELSE LET samples == compute_samples(b)
         IN  [exc |-> "", msg |-> "", b |-> [b EXCEPT !.samples = samples],
              value |-> samples]

\* sorted(data), by insertion
RECURSIVE Insert(_, _)
Insert(x, sorted) ==
    IF sorted = <<>> THEN <<x>>
    ELSE IF Leq(x, Head(sorted)) THEN <<x>> \o sorted
    ELSE <<Head(sorted)>> \o Insert(x, Tail(sorted))

RECURSIVE Sorted(_)
Sorted(data) == IF data = <<>> THEN <<>> ELSE Insert(Head(data), Sorted(Tail(data)))

\* statistics.median(data) for non-empty data
statistics_median(data) ==
    LET s == Sorted(data)
        n == Len(s)
    IN  IF n % 2 = 1 THEN s[n \div 2 + 1]
        ELSE Mean2(s[n \div 2], s[n \div 2 + 1])

\* median(): statistics.median raises StatisticsError on no data; the
\* samples computed on the way stay cached
median(b) ==
    IF b.median # None
    THEN [exc |-> "", msg |-> "", b |-> b, value |-> b.median]
    ELSE LET g == get_samples(b)
         IN  IF g.exc # "" THEN g
             ELSE IF g.value.u = <<>>
             THEN [exc |-> "StatisticsError", msg |-> "no median for empty data",
                   b |-> g.b, value |-> None]
             ELSE LET m == statistics_median(g.value.u)
                  IN  IF Num(m) = 0
                      THEN [exc |-> "AssertionError", msg |-> "",
                            b |-> [g.b EXCEPT !.median = m], value |-> None]
                      ELSE [exc |-> "", msg |-> "",
                            b |-> [g.b EXCEPT !.median = m], value |-> m]

\* add_run clearing the caches before it validates its argument
add_run_clears_first(b, samples) ==
    LET items == Items(samples)
        c == _clear_stats_cache(b)
    IN  IF items = <<>>
           \/ \E k \in 1..Len(items) : ~(IsNumber(items[k]) /\ Positive(items[k]))
        THEN Raise("ValueError", "samples must be a non-empty list of float > 0", c)
        ELSE IF b.warmups # None /\ Len(items) - b.warmups.i < 1
        THEN Raise("ValueError", "provided samples, but benchmark uses warmups", c)
        ELSE IF b.runs # <<>> /\ Len(items) # Len(b.runs[1].u)
        THEN Raise("ValueError", "different number of samples", c)
        ELSE Ok([c EXCEPT !.runs = Append(b.runs, PyTuple(items))])

\* add_run without the comparison with the first stored run's length
add_run_any_length(b, samples) ==
    LET items == Items(samples)
    IN  IF items = <<>>
           \/ \E k \in 1..Len(items) : ~(IsNumber(items[k]) /\ Positive(items[k]))
        THEN Raise("ValueError", "samples must be a non-empty list of float > 0", b)
        ELSE IF b.warmups # None /\ Len(items) - b.warmups.i < 1
        THEN Raise("ValueError", "provided samples, but benchmark uses warmups", b)
        ELSE Ok([_clear_stats_cache(b) EXCEPT !.runs = Append(b.runs, PyTuple(items))])

\* add_run(samples), samples a list or a tuple
add_run(b, samples) ==
    LET items == Items(samples)
    IN  IF items = <<>>
           \/ \E k \in 1..Len(items) : ~(IsNumber(items[k]) /\ Positive(items[k]))
        THEN Raise("ValueError", "samples must be a non-empty list of float > 0", b)
        ELSE IF b.warmups # None /\ Len(items) - b.warmups.i < 1
        THEN Raise("ValueError", "provided samples, but benchmark uses warmups", b)
        ELSE IF b.runs # <<>> /\ Len(items) # Len(b.runs[1].u)
        THEN Raise("ValueError", "different number of samples", b)
        ELSE Ok([_clear_stats_cache(b) EXCEPT !.runs = Append(b.runs, PyTuple(items))])

\* -------------------------------------------------------- BenchmarkSuite
_JSON_VERSION == 2

\* a == b on Python values: numbers by value, everything else by identity of
\* type and content
PyEq(a, b) ==
    IF IsNumber(a) /\ IsNumber(b)
    THEN Num(a) * Den(b) = Num(b) * Den(a)
    ELSE a = b

\* _add_benchmark without the membership test
_add_benchmark_overwrites(d, name, benchmark) == Ok(Put(d, name, benchmark))

\* _add_benchmark(name, benchmark) on the dictionary d
_add_benchmark(d, name, benchmark) ==
    IF name \in DOMAIN d
    THEN Raise("ValueError", "duplicate benchmark name", d)
    ELSE Ok(Put(d, name, benchmark))

\* add_benchmark(benchmark): the key is the benchmark's name, ref is what the
\* dictionary stores for it
add_benchmark(d, b, ref) == _add_benchmark(d, name_getter(b), ref)

\* Benchmark._as_json(): the dictionary handed to json.dump
_as_json(b) ==
    LET keys == {"runs"}
                  \cup (IF Truthy(b.warmups) THEN {"warmups"} ELSE {})
                  \cup (IF b.loops # None THEN {"loops"} ELSE {})
                  \cup (IF b.inner_loops # None THEN {"inner_loops"} ELSE {})
                  \cup (IF DOMAIN b.metadata # {} THEN {"metadata"} ELSE {})
    IN  PyDict([k \in keys |->
                  CASE k = "runs" -> PyList(b.runs)
                    [] k = "warmups" -> b.warmups
                    [] k = "loops" -> b.loops
                    [] k = "inner_loops" -> b.inner_loops
                    [] k = "metadata" -> PyDict(b.metadata)])

\* what json.load reads back from what json.dump wrote for a benchmark
\* record: tuples and lists are both written as arrays and read as lists
JsonRecord(data) ==
    PyDict([k \in DOMAIN data.d |->
              IF k = "runs"
              THEN PyList([r \in 1..Len(data.d[k].l) |-> PyList(Items(data.d[k].l[r]))])
              ELSE data.d[k]])

\* BenchmarkSuite.dump(): the document in the file, benchmarks being the
\* suite's (name, Benchmark) items
dump(benchmarks) ==
    PyDict([version |-> PyInt(_JSON_VERSION),
            benchmarks |-> PyDict([name \in DOMAIN benchmarks |->
                                     JsonRecord(_as_json(benchmarks[name]))])])

\* for run_data in runs: bench.add_run(run_data)
RECURSIVE AddRuns(_, _)
AddRuns(b, runs) ==
    IF runs = <<>> THEN Ok(b)
    ELSE TheOne({IF r.exc # "" THEN r ELSE AddRuns(r.b, Tail(runs))
                 : r \in {add_run(b, Head(runs))}})

\* Benchmark._json_load(data)
_json_load(data) ==
    LET warmups == Get(data.d, "warmups", PyInt(0))
        loops == Get(data.d, "loops", PyInt(1))
        inner_loops == Get(data.d, "inner_loops", None)
        metadata == Get(data.d, "metadata", None)
    IN  IF metadata = None
        THEN Raise("AttributeError", "'NoneType' object has no attribute 'get'", None)
        ELSE TheOne({IF bench.exc # "" THEN bench
                     ELSE IF "runs" \notin DOMAIN data.d
                     THEN Raise("KeyError", "runs", None)
                     ELSE AddRuns(bench.b, data.d["runs"].l)
                     : bench \in {Benchmark__init__(Get(metadata.d, "name", None), loops,
                                                    inner_loops, warmups, metadata)}})

\* for name, bench_data in benchmarks_json.items(): load and add; the items
\* are taken in an arbitrary fixed order
RECURSIVE LoadItems(_, _, _)
LoadItems(d, benchmarks_json, names) ==
    IF names = {} THEN Ok(d)
    ELSE LET name == CHOOSE n \in names : TRUE
         IN  TheOne({IF benchmark.exc # "" THEN benchmark ELSE
             TheOne({IF r.exc # "" THEN r
                     ELSE LoadItems(r.b, benchmarks_json, names \ {name})
                     : r \in {_add_benchmark(d, name, benchmark.b)}})
                     : benchmark \in {_json_load(benchmarks_json[name])}})

EmptySuite == [k \in {} |-> Blank]

\* the version-1 branch of _load_json: the benchmarks dictionary it builds
LegacyBenchmarks(bench_file) ==
    IF "benchmark" \notin DOMAIN bench_file.d
    THEN Raise("KeyError", "benchmark", None)
    ELSE LET bench_data == bench_file.d["benchmark"]
         IN  IF "name" \notin DOMAIN bench_data.d
             THEN Raise("KeyError", "name", None)
             ELSE LET name == IF Truthy(bench_data.d["name"])
                              THEN bench_data.d["name"]
                              ELSE PyStr(<<"b", "e", "n", "c", "h", "m", "a", "r", "k">>)
                  IN  IF "metadata" \notin DOMAIN bench_data.d
                      THEN Raise("KeyError", "metadata", None)
                      ELSE IF bench_data.d["metadata"] = None
                      THEN Raise("TypeError", "argument of type 'NoneType' is not iterable",
                                 None)
                      ELSE LET metadata == bench_data.d["metadata"].d
                               migrated ==
                                   IF "name" \notin DOMAIN metadata
                                   THEN [bench_data.d EXCEPT
                                            !["metadata"] = PyDict(Put(metadata, "name", name))]
                                   ELSE bench_data.d
                           IN  Ok([n \in {name} |-> PyDict(migrated)])

\* the version dispatch of _load_json treating every other version as the
\* current one
VersionedBenchmarks_any_version(bench_file) ==
    LET version == Get(bench_file.d, "version", None)
    IN  IF PyEq(version, PyInt(1))
        THEN LegacyBenchmarks(bench_file)
        ELSE IF "benchmarks" \in DOMAIN bench_file.d
             THEN Ok(bench_file.d["benchmarks"].d)
             ELSE Raise("KeyError", "benchmarks", None)

\* the version dispatch of _load_json: the benchmarks dictionary to load
VersionedBenchmarks(bench_file) ==
    LET version == Get(bench_file.d, "version", None)
    IN  IF PyEq(version, PyInt(_JSON_VERSION))
        THEN IF "benchmarks" \in DOMAIN bench_file.d
             THEN Ok(bench_file.d["benchmarks"].d)
             ELSE Raise("KeyError", "benchmarks", None)
        ELSE IF PyEq(version, PyInt(1))
        THEN LegacyBenchmarks(bench_file)
        ELSE Raise("ValueError", "file format version not supported", None)

\* BenchmarkSuite._load_json(filename, bench_file): the suite (name ->
\* Benchmark) or the exception
_load_json(bench_file) ==
    TheOne({IF benchmarks_json.exc # "" THEN benchmarks_json ELSE
    TheOne({IF r.exc # "" THEN r
            ELSE IF DOMAIN r.b = {}
            THEN Raise("ValueError", "the file doesn't contain any benchmark", None)
            ELSE r
            : r \in {LoadItems(EmptySuite, benchmarks_json.b, DOMAIN benchmarks_json.b)}})
            : benchmarks_json \in {VersionedBenchmarks(bench_file)}})

\* ------------------------------------------------------------ the inputs
\* sample values offered to add_run: 1.0 and 3 are valid; 0 and 'x' are not
SampleInputs == {PyFloat(1, 1), PyInt(3), PyInt(0)}
NotANumber == PyStr(<<"x">>)

RECURSIVE SeqsUpTo(_, _)
SeqsUpTo(S, n) ==
    IF n = 0 THEN {<<>>}
    ELSE LET shorter == SeqsUpTo(S, n - 1)
         IN  shorter \cup {Append(q, x) : q \in {p \in shorter : Len(p) = n - 1}, x \in S}

\* every list of at most MaxLen of them, and the lists ['x'] and [1.0, 'x']
RunInputs ==
    {PyList(q) : q \in SeqsUpTo(SampleInputs, MaxLen)}
        \cup {PyList(<<NotANumber>>), PyList(<<PyFloat(1, 1), NotANumber>>)}

LoopsInputs == {PyInt(0), PyInt(1), PyInt(2), PyFloat(2, 1)}
InnerLoopsInputs == {None, PyInt(0), PyInt(2)}
WarmupsInputs == {None, PyInt(-1), PyInt(0), PyInt(1)}
NameInputs == {None, PyStr(<<" ">>), PyStr(<<"a">>), PyStr(<<" ", "a">>)}

\* ------------------------------------------------------------- the state
\* heap: the Benchmark objects, by identity; suite: the BenchmarkSuite
\* dictionary, name -> identity; ret: the last call and its outcome
Call(op, self, r, value) ==
    [op |-> op, self |-> self, exc |-> r.exc, msg |-> r.msg, value |-> value]

Init ==
    /\ heap = [o \in {} |-> Blank]
    /\ suite = [k \in {} |-> "o1"]
    /\ ret = Call("start", "", Ok(None), None)

\* ------------------------------------------------- actions on a Benchmark
New(o, name, loops, inner_loops, warmups, metadata) ==
    /\ o \notin DOMAIN heap
    /\ LET r == Benchmark__init__(name, loops, inner_loops, warmups, metadata)
       IN  /\ heap' = IF r.exc = "" THEN Put(heap, o, r.b) ELSE heap
           /\ ret' = Call("Benchmark", o, r, None)
    /\ UNCHANGED suite

\* o.loops = value / o.inner_loops = value / o.warmups = value / o.name = value
SetLoops(o, value) ==
    /\ o \in DOMAIN heap
    /\ LET r == loops_setter(heap[o], value)
       IN  /\ heap' = [heap EXCEPT ![o] = r.b]
           /\ ret' = Call("loops", o, r, None)
    /\ UNCHANGED suite

SetInnerLoops(o, value) ==
    /\ o \in DOMAIN heap
    /\ LET r == inner_loops_setter(heap[o], value)
       IN  /\ heap' = [heap EXCEPT ![o] = r.b]
           /\ ret' = Call("inner_loops", o, r, None)
    /\ UNCHANGED suite

SetWarmups(o, value) ==
    /\ o \in DOMAIN heap
    /\ LET r == warmups_setter(heap[o], value)
       IN  /\ heap' = [heap EXCEPT ![o] = r.b]
           /\ ret' = Call("warmups", o, r, None)
    /\ UNCHANGED suite

SetName(o, value) ==
    /\ o \in DOMAIN heap
    /\ LET r == name_setter(heap[o], value)
       IN  /\ heap' = [heap EXCEPT ![o] = r.b]
           /\ ret' = Call("name", o, r, None)
    /\ UNCHANGED suite

AddRun(o, samples) ==
    /\ o \in DOMAIN heap
    /\ LET r == add_run(heap[o], samples)
       IN  /\ Len(r.b.runs) <= MaxRuns
           /\ heap' = [heap EXCEPT ![o] = r.b]
           /\ ret' = Call("add_run", o, r, None)
    /\ UNCHANGED suite

GetSamples(o) ==
    /\ o \in DOMAIN heap
    /\ LET r == get_samples(heap[o])
       IN  /\ heap' = [heap EXCEPT ![o] = r.b]
           /\ ret' = Call("get_samples", o, r, r.value)
    /\ UNCHANGED suite

Median(o) ==
    /\ o \in DOMAIN heap
    /\ LET r == median(heap[o])
       IN  /\ heap' = [heap EXCEPT ![o] = r.b]
           /\ ret' = Call("median", o, r, r.value)
    /\ UNCHANGED suite

\* -------------------------------------- one Benchmark and all its inputs
Next ==
    \/ /\ heap = [o \in {} |-> Blank]
       /\ \E name \in NameInputs, loops \in LoopsInputs, inner_loops \in InnerLoopsInputs,
             warmups \in WarmupsInputs :
             New("o1", name, loops, inner_loops, warmups, None)
    \/ \E value \in LoopsInputs : SetLoops("o1", value)
    \/ \E value \in InnerLoopsInputs : SetInnerLoops("o1", value)
    \/ \E value \in WarmupsInputs : SetWarmups("o1", value)
    \/ \E value \in NameInputs : SetName("o1", value)
    \/ \E samples \in RunInputs : AddRun("o1", samples)
    \/ GetSamples("o1")
    \/ Median("o1")

Spec == Init /\ [][Next]_vars

\* a Benchmark that is constructed and then only given runs and read
NextFresh ==
    \/ /\ heap = [o \in {} |-> Blank]
       /\ \E name \in NameInputs, loops \in LoopsInputs, inner_loops \in InnerLoopsInputs,
             warmups \in WarmupsInputs :
             New("o1", name, loops, inner_loops, warmups, None)
    \/ \E samples \in RunInputs : AddRun("o1", samples)
    \/ GetSamples("o1")

SpecFresh == Init /\ [][NextFresh]_vars

\* ------------------------------------------ actions on a BenchmarkSuite
\* suite.add_benchmark(o)
AddBenchmark(o) ==
    /\ o \in DOMAIN heap
    /\ LET r == add_benchmark(suite, heap[o], o)
       IN  /\ suite' = r.b
           /\ ret' = Call("add_benchmark", o, r, None)
    /\ UNCHANGED heap

\* the suite's items: name -> Benchmark
SuiteItems == [name \in DOMAIN suite |-> heap[suite[name]]]

\* suite.dump(file): ret.value is the document written
Dump ==
    /\ ret' = Call("dump", "", Ok(None), dump(SuiteItems))
    /\ UNCHANGED <<heap, suite>>

\* what a load of the document doc leaves: the suite, or the exception
Loaded(r, doc) ==
    [op |-> "load", self |-> "", exc |-> r.exc, msg |-> r.msg,
     value |-> IF r.exc = "" THEN PySuite(r.b) ELSE None, doc |-> doc]

\* BenchmarkSuite.load(file) on a file holding the document doc
Loads(doc) ==
    /\ ret' = Loaded(_load_json(doc), doc)
    /\ UNCHANGED <<heap, suite>>

\* ---------------------- two Benchmarks, one suite, dump and load it back
SuiteObjects == {"o1", "o2"}
SuiteNameInputs == {PyStr(<<"a">>), PyStr(<<"b", " ">>)}
\* (loops, inner_loops) as given to the constructor
SuiteLoopsInputs == {<<PyInt(1), None>>, <<PyInt(2), PyInt(2)>>}
SuiteWarmupsInputs == {PyInt(0), PyInt(1), PyInt(2)}
SuiteMetadata == PyDict([cpu |-> PyStr(<<"x">>)])
SuiteRunInputs == {PyList(<<PyInt(3), PyFloat(1, 1)>>)}

NextSuite ==
    \/ \E o \in SuiteObjects \ DOMAIN heap :
          \E name \in SuiteNameInputs, loops \in SuiteLoopsInputs,
             warmups \in SuiteWarmupsInputs :
             New(o, name, loops[1], loops[2], warmups, SuiteMetadata)
    \/ \E o \in SuiteObjects, value \in SuiteWarmupsInputs : SetWarmups(o, value)
    \/ \E o \in SuiteObjects, value \in SuiteNameInputs : SetName(o, value)
    \/ \E o \in SuiteObjects, samples \in SuiteRunInputs : AddRun(o, samples)
    \/ \E o \in SuiteObjects : AddBenchmark(o)
    \/ Dump
    \/ ret.op = "dump" /\ Loads(ret.value)

SpecSuite == Init /\ [][NextSuite]_vars

\* ------------------------------------------------- documents to load
KeyA == PyStr(<<"a">>)
KeyB == PyStr(<<"b">>)
DefaultName == PyStr(<<"b", "e", "n", "c", "h", "m", "a", "r", "k">>)

Run1 == PyList(<<PyFloat(1, 1)>>)
Run2 == PyList(<<PyInt(3), PyFloat(1, 1)>>)
Run2b == PyList(<<PyFloat(1, 1), PyInt(3)>>)
RunZero == PyList(<<PyInt(0)>>)
Run123 == PyList(<<PyInt(1), PyInt(2), PyInt(3)>>)
MetaA == PyDict([name |-> KeyA])
MetaB == PyDict([name |-> KeyB, cpu |-> PyStr(<<"x">>)])

\* benchmark records of a version-2 document: two that load, one without
\* runs, and records whose loops, samples, run lengths, warmups or missing
\* metadata make the load fail
DocRecords ==
    {PyDict([runs |-> PyList(<<Run1>>), metadata |-> MetaA]),
     PyDict([runs |-> PyList(<<Run2, Run2b>>), warmups |-> PyInt(1), loops |-> PyInt(2),
             inner_loops |-> PyInt(2), metadata |-> MetaB]),
     PyDict([runs |-> PyList(<<>>), metadata |-> MetaA]),
     PyDict([runs |-> PyList(<<Run1>>), loops |-> PyInt(0), metadata |-> MetaA]),
     PyDict([runs |-> PyList(<<Run1, RunZero>>), metadata |-> MetaA]),
     PyDict([runs |-> PyList(<<Run1, Run2>>), metadata |-> MetaA]),
     PyDict([runs |-> PyList(<<Run1>>), warmups |-> PyInt(1), metadata |-> MetaA]),
     PyDict([runs |-> PyList(<<Run1>>)])}

\* every 'benchmarks' map with keys among 'a' and 'b'
DocBenchmarks ==
    {PyDict(m) : m \in UNION {[K -> DocRecords] : K \in SUBSET {KeyA, KeyB}}}

\* the 'version' member: absent (<<>>), null, 1, 2, 3 or the string '2'
DocVersions == {<<>>, <<None>>, <<PyInt(1)>>, <<PyInt(2)>>, <<PyInt(3)>>, <<PyStr(<<"2">>)>>}

\* a dictionary restricted to some of its keys
Restrict(d, keys) == [k \in keys |-> d[k]]

Document(version, body) ==
    IF version = <<>> THEN PyDict(body)
    ELSE PyDict([k \in DOMAIN body \cup {"version"} |->
                   IF k = "version" THEN version[1] ELSE body[k]])

\* version-1 records: name absent, null, empty or 'a'; metadata absent,
\* empty or naming 'b'; runs [[1, 2, 3]] or the rejected [[0]]
LegacyRecords ==
    {PyDict(Restrict([name |-> name, metadata |-> metadata, runs |-> PyList(<<run>>)], keys)) :
        name \in {None, PyStr(<<>>), KeyA},
        metadata \in {PyDict(EmptyDict), PyDict([name |-> KeyB])},
        run \in {Run123, RunZero},
        keys \in {{"name", "metadata", "runs"}, {"metadata", "runs"}, {"name", "runs"}}}

Docs ==
    {Document(v, [benchmarks |-> b]) : v \in DocVersions, b \in DocBenchmarks}
        \cup {Document(v, [benchmark |-> r]) : v \in {<<PyInt(1)>>, <<PyInt(3)>>},
                                               r \in LegacyRecords}
        \cup {Document(v, EmptyDict) : v \in DocVersions}

\* one load per behaviour: a load changes no object and no suite
NextLoad == ret.op = "start" /\ \E doc \in Docs : Loads(doc)

SpecLoad == Init /\ [][NextLoad]_vars

\* ------------------------------------------------------------ properties
Objects == DOMAIN heap

\* the cases in which add_run must reject its argument
MustReject(b, samples) ==
    \/ samples.l = <<>>
    \/ \E k \in 1..Len(samples.l) :
          ~(samples.l[k].t \in {"int", "float"} /\ Num(samples.l[k]) > 0)
    \/ Len(samples.l) - b.warmups.i < 1
    \/ /\ Len(b.runs) >= 1
       /\ \E r \in 1..Len(b.runs) : Len(samples.l) # Len(b.runs[r].u)

\* C1: add_run raises ValueError on an empty list, on a sample that is not a
\* number > 0, on len(samples) - warmups < 1 and on a length different from
\* the stored runs'; a failing add_run leaves the runs and the caches as
\* they were.
C1_AddRunRejects ==
    /\ \A o \in Objects, samples \in RunInputs :
          MustReject(heap[o], samples) =>
              /\ add_run(heap[o], samples).exc = "ValueError"
              /\ add_run(heap[o], samples).b = heap[o]
    /\ (ret.op = "add_run" /\ ret.exc # "") => ret.exc = "ValueError"

\* a run of another length was offered to a Benchmark holding computed
\* samples and median, and was rejected
C1_Witness ==
    /\ ret.op = "add_run"
    /\ ret.exc = "ValueError"
    /\ ret.msg = "different number of samples"
    /\ heap["o1"].samples # None
    /\ heap["o1"].median # None

\* C2: on a fresh Benchmark given only runs, get_samples() has
\* nrun * (run_length - W) elements, and the element for position W+k of run
\* r is that raw value divided by L*I (I = 1 when inner_loops is None).
C2_SamplesOfFreshBenchmark ==
    ret.op = "get_samples" =>
        LET b == heap[ret.self]
            W == b.warmups.i
            L == b.loops.i
            I == IF b.inner_loops = None THEN 1 ELSE b.inner_loops.i
            nrun == Len(b.runs)
            usable == IF nrun = 0 THEN 0 ELSE Len(b.runs[1].u) - W
        IN  /\ ret.value.t = "tuple"
            /\ Len(ret.value.u) = nrun * usable
            /\ \A r \in 1..nrun, k \in 1..usable :
                  LET raw == b.runs[r].u[W + k]
                      got == ret.value.u[(r - 1) * usable + k]
                  IN  /\ got.t = "float"
                      /\ got.num * Den(raw) * L * I = Num(raw) * got.den

\* two runs of two samples, one warmup, loops * inner_loops = 4, just read
C2_Witness ==
    /\ ret.op = "get_samples"
    /\ Len(heap["o1"].runs) = 2
    /\ Len(heap["o1"].runs[1].u) = 2
    /\ heap["o1"].warmups = PyInt(1)
    /\ heap["o1"].loops = PyInt(2)
    /\ heap["o1"].inner_loops = PyInt(2)
    /\ heap["o1"].runs[1] # heap["o1"].runs[2]

\* C3: what get_samples() and median() return, and what the caches hold, is
\* always what the current runs, loops, inner_loops and warmups give when
\* computed from scratch.
C3_NoStaleCache ==
    /\ \A o \in Objects :
          /\ heap[o].samples # None => heap[o].samples = compute_samples(heap[o])
          /\ heap[o].median # None =>
                heap[o].median = statistics_median(compute_samples(heap[o]).u)
    /\ (ret.op = "get_samples" /\ ret.exc = "") =>
          ret.value = compute_samples(heap[ret.self])
    /\ (ret.op = "median" /\ ret.exc = "") =>
          ret.value = statistics_median(compute_samples(heap[ret.self]).u)

\* median() has returned 0.5 for two runs with loops * inner_loops = 4
C3_Witness ==
    /\ ret.op = "median"
    /\ ret.exc = ""
    /\ heap["o1"].loops = PyInt(2)
    /\ heap["o1"].inner_loops = PyInt(2)
    /\ Len(heap["o1"].runs) = 2
    /\ ret.value = PyFloat(1, 2)

\* C5: every stored run has more samples than warmups.
C5_RunsLongerThanWarmups ==
    \A o \in Objects :
        \A r \in 1..Len(heap[o].runs) : Len(heap[o].runs[r].u) - heap[o].warmups.i >= 1

\* C6: all stored runs have one length, none is empty, and every stored
\* sample is a number > 0.
C6_RunsWellFormed ==
    \A o \in Objects :
        \A r \in 1..Len(heap[o].runs) :
            LET run == heap[o].runs[r]
            IN  /\ run.t = "tuple"
                /\ Len(run.u) >= 1
                /\ Len(run.u) = Len(heap[o].runs[1].u)
                /\ \A k \in 1..Len(run.u) :
                      run.u[k].t \in {"int", "float"} /\ Num(run.u[k]) > 0

\* two runs are stored and an add_run has just been rejected
C6_Witness ==
    /\ ret.op = "add_run"
    /\ ret.exc = "ValueError"
    /\ Len(heap["o1"].runs) = 2
    /\ Len(heap["o1"].runs[1].u) = 2

\* the fields a reloaded benchmark is compared on
SameFields(x, y) ==
    /\ x.runs = y.runs
    /\ x.loops = y.loops
    /\ x.inner_loops = y.inner_loops
    /\ x.warmups = y.warmups
    /\ x.metadata = y.metadata

\* C4: dumping a non-empty suite and loading the document back succeeds and
\* gives the same names, each with a benchmark equal to the original in
\* runs, loops, inner_loops, warmups and metadata.
C4_RoundTrip ==
    (ret.op = "load" /\ DOMAIN suite # {} /\ ret.doc = dump(SuiteItems)) =>
        /\ ret.exc = ""
        /\ DOMAIN ret.value.d = DOMAIN suite
        /\ \A name \in DOMAIN suite : SameFields(ret.value.d[name], heap[suite[name]])

\* C7: no two benchmarks of a suite, built by add_benchmark and renames or
\* loaded from a document, have the same name.
C7_UniqueNames ==
    /\ \A k1, k2 \in DOMAIN suite :
          suite[k1] # suite[k2] =>
              name_getter(heap[suite[k1]]) # name_getter(heap[suite[k2]])
    /\ (ret.op = "load" /\ ret.exc = "") =>
          \A k1, k2 \in DOMAIN ret.value.d :
              k1 # k2 => name_getter(ret.value.d[k1]) # name_getter(ret.value.d[k2])

\* C8: add_benchmark(b) raises ValueError 'duplicate benchmark name' and
\* leaves the suite as it was when b.name is already a key; otherwise it
\* stores b under b.name and changes no other entry.
C8_AddBenchmark ==
    [][ret'.op = "add_benchmark" =>
          LET o == ret'.self
              name == heap[o].metadata["name"]
          IN  IF name \in DOMAIN suite
              THEN /\ ret'.exc = "ValueError"
                   /\ ret'.msg = "duplicate benchmark name"
                   /\ suite' = suite
              ELSE /\ ret'.exc = ""
                   /\ DOMAIN suite' = DOMAIN suite \cup {name}
                   /\ suite'[name] = o
                   /\ \A k \in DOMAIN suite : suite'[k] = suite[k]]_vars

\* a second Benchmark was refused under a name the suite already holds for
\* another one
C8_Witness ==
    /\ ret.op = "add_benchmark"
    /\ ret.exc = "ValueError"
    /\ heap[ret.self].metadata["name"] \in DOMAIN suite
    /\ suite[heap[ret.self].metadata["name"]] # ret.self

\* C9: a version-1 document whose record has no name, or an empty one, and
\* no name in its metadata loads into a suite of exactly one benchmark,
\* named 'benchmark', with that name put into its metadata.
C9_LegacyDefaultName ==
    (/\ ret.op = "load"
     /\ Get(ret.doc.d, "version", None) = PyInt(1)
     /\ "benchmark" \in DOMAIN ret.doc.d
     /\ "metadata" \in DOMAIN ret.doc.d["benchmark"].d
     /\ "name" \notin DOMAIN ret.doc.d["benchmark"].d["metadata"].d
     /\ Get(ret.doc.d["benchmark"].d, "name", PyStr(<<>>)) = PyStr(<<>>)
     /\ ret.doc.d["benchmark"].d["runs"] = PyList(<<Run123>>))
    => /\ ret.exc = ""
       /\ DOMAIN ret.value.d = {DefaultName}
       /\ ret.value.d[DefaultName].metadata["name"] = DefaultName

\* C10: a document whose version is neither 1 nor 2, or is missing, and a
\* version-2 document with an empty 'benchmarks' map, fail to load with
\* ValueError; a failing load returns no suite.
C10_LoadRejects ==
    ret.op = "load" =>
        LET version == Get(ret.doc.d, "version", None)
        IN  /\ version \notin {PyInt(1), PyInt(2)} => ret.exc = "ValueError"
            /\ (/\ version = PyInt(2)
                /\ "benchmarks" \in DOMAIN ret.doc.d
                /\ DOMAIN ret.doc.d["benchmarks"].d = {}) => ret.exc = "ValueError"
            /\ ret.exc # "" => ret.value = None

\* a version-3 document holding two loadable benchmarks was refused
C10_Witness ==
    /\ ret.op = "load"
    /\ Get(ret.doc.d, "version", None) = PyInt(3)
    /\ "benchmarks" \in DOMAIN ret.doc.d
    /\ DOMAIN ret.doc.d["benchmarks"].d = {KeyA, KeyB}
    /\ _load_json(Document(<<PyInt(2)>>, [benchmarks |-> ret.doc.d["benchmarks"]])).exc = ""
    /\ ret.exc = "ValueError"
    /\ ret.value = None

\* C11: the record dump writes for a benchmark always has 'runs' and leaves
\* out each optional field exactly when it is at its default (warmups 0,
\* loops 1, inner_loops None, metadata empty); the document is
\* {version: 2, benchmarks: {...}}.
C11_DumpOmitsDefaults ==
    ret.op = "dump" =>
        /\ DOMAIN ret.value.d = {"version", "benchmarks"}
        /\ ret.value.d["version"] = PyInt(2)
        /\ DOMAIN ret.value.d["benchmarks"].d = DOMAIN suite
        /\ \A name \in DOMAIN suite :
              LET b == heap[suite[name]]
                  fields == DOMAIN ret.value.d["benchmarks"].d[name].d
              IN  /\ "runs" \in fields
                  /\ "warmups" \notin fields <=> b.warmups = PyInt(0)
                  /\ "loops" \notin fields <=> b.loops = PyInt(1)
                  /\ "inner_loops" \notin fields <=> b.inner_loops = None
                  /\ "metadata" \notin fields <=> DOMAIN b.metadata = {}

\* ---------------------------------------- an accumulator and a worker result
\* the first of attrs on which the worker result differs from self, or ""
RECURSIVE FirstDifferent(_, _, _)
FirstDifferent(b, run_bench, attrs) ==
    IF attrs = <<>> THEN ""
    ELSE IF ~PyEq(run_bench[Head(attrs)], b[Head(attrs)]) THEN Head(attrs)
    ELSE FirstDifferent(b, run_bench, Tail(attrs))

\* "%s value is different" % attr
ValueIsDifferent(attr) ==
    CASE attr = "loops" -> "loops value is different"
      [] attr = "inner_loops" -> "inner_loops value is different"
      [] attr = "warmups" -> "warmups value is different"

\* _get_worker_samples comparing loops and warmups only
_get_worker_samples_skips_inner_loops(b, run_bench) ==
    IF Len(run_bench.runs) # 1
    THEN [exc |-> "ValueError", msg |-> "A worker result must have exactly one run",
          b |-> b, value |-> None]
    ELSE LET attr == FirstDifferent(b, run_bench, <<"loops", "warmups">>)
         IN  IF attr # ""
             THEN [exc |-> "ValueError", msg |-> ValueIsDifferent(attr),
                   b |-> b, value |-> None]
             ELSE [exc |-> "", msg |-> "", b |-> b, value |-> run_bench.runs[1]]

\* self._get_worker_samples(run_bench)
_get_worker_samples(b, run_bench) ==
    IF Len(run_bench.runs) # 1
    THEN [exc |-> "ValueError", msg |-> "A worker result must have exactly one run",
          b |-> b, value |-> None]
    ELSE LET attr == FirstDifferent(b, run_bench, <<"loops", "inner_loops", "warmups">>)
         IN  IF attr # ""
             THEN [exc |-> "ValueError", msg |-> ValueIsDifferent(attr),
                   b |-> b, value |-> None]
             ELSE [exc |-> "", msg |-> "", b |-> b, value |-> run_bench.runs[1]]

\* o._get_worker_samples(w)
GetWorkerSamples(o, w) ==
    /\ o \in DOMAIN heap
    /\ w \in DOMAIN heap
    /\ LET r == _get_worker_samples(heap[o], heap[w])
       IN  ret' = [op |-> "_get_worker_samples", self |-> o, exc |-> r.exc,
                   msg |-> r.msg, value |-> r.value, worker |-> w]
    /\ UNCHANGED <<heap, suite>>

WorkerLoopsInputs == {PyInt(1), PyInt(2)}
WorkerInnerLoopsInputs == {None, PyInt(2)}
WorkerWarmupsInputs == {PyInt(0), PyInt(1)}

NextWorker ==
    \/ \E o \in SuiteObjects \ DOMAIN heap :
          \E loops \in WorkerLoopsInputs, inner_loops \in WorkerInnerLoopsInputs,
             warmups \in WorkerWarmupsInputs :
             New(o, PyStr(<<"a">>), loops, inner_loops, warmups, None)
    \/ \E o \in SuiteObjects, samples \in SuiteRunInputs : AddRun(o, samples)
    \/ \E o, w \in SuiteObjects : GetWorkerSamples(o, w)

SpecWorker == Init /\ [][NextWorker]_vars

\* C12: _get_worker_samples(worker) raises ValueError when the worker result
\* does not have exactly one run; otherwise it raises ValueError naming the
\* first of loops, inner_loops, warmups that differs from the accumulator's;
\* only with one run and the three attributes equal it returns the worker's
\* single run.
C12_WorkerSamples ==
    ret.op = "_get_worker_samples" =>
        LET b == heap[ret.self]
            w == heap[ret.worker]
            one == Len(w.runs) = 1
            loops == w.loops = b.loops
            inner_loops == w.inner_loops = b.inner_loops
            warmups == w.warmups = b.warmups
        IN  /\ ~one => /\ ret.exc = "ValueError"
                       /\ ret.msg = "A worker result must have exactly one run"
            /\ (one /\ ~loops) =>
                   ret.exc = "ValueError" /\ ret.msg = "loops value is different"
            /\ (one /\ loops /\ ~inner_loops) =>
                   ret.exc = "ValueError" /\ ret.msg = "inner_loops value is different"
            /\ (one /\ loops /\ inner_loops /\ ~warmups) =>
                   ret.exc = "ValueError" /\ ret.msg = "warmups value is different"
            /\ (one /\ loops /\ inner_loops /\ warmups) =>
                   ret.exc = "" /\ ret.value = w.runs[1]
            /\ ret.exc = "" => (one /\ loops /\ inner_loops /\ warmups)

\* a worker result with one run and the accumulator's loops and warmups, but
\* another inner_loops, was refused
C12_Witness ==
    /\ ret.op = "_get_worker_samples"
    /\ ret.self # ret.worker
    /\ Len(heap[ret.worker].runs) = 1
    /\ heap[ret.worker].loops = heap[ret.self].loops
    /\ heap[ret.worker].warmups = heap[ret.self].warmups
    /\ heap[ret.worker].inner_loops # heap[ret.self].inner_loops
    /\ ret.msg = "inner_loops value is different"

\* ------------------------------------------------ the statistics functions
\* the table of critical values, in thousandths, for 0..30 degrees of freedom
_T_DIST_95_CONF_LEVELS ==
    [k \in 1..31 |->
        PyFloat(<<0, 12706, 4303, 3182, 2776,
                  2571, 2447, 2365, 2306, 2262,
                  2228, 2201, 2179, 2160, 2145,
                  2131, 2120, 2110, 2101, 2093,
                  2086, 2080, 2074, 2069, 2064,
                  2060, 2056, 2052, 2048, 2045,
                  2042>>[k], 1000)]

\* list[index]: a negative index counts from the end, an index outside the
\* list raises IndexError
GetItem(list, index) ==
    IF index >= 0 /\ index < Len(list) THEN Ok(list[index + 1])
    ELSE IF index < 0 /\ index >= -Len(list) THEN Ok(list[Len(list) + index + 1])
    ELSE Raise("IndexError", "list index out of range", None)

\* _tdist95conf_level without the clamp to the table's last entry
_tdist95conf_level_unclamped(df) ==
    IF df >= 200 THEN Ok(PyFloat(1960, 1000))
    ELSE IF df >= 100 THEN Ok(PyFloat(1984, 1000))
    ELSE IF df >= 80 THEN Ok(PyFloat(1990, 1000))
    ELSE IF df >= 60 THEN Ok(PyFloat(2000, 1000))
    ELSE IF df >= 50 THEN Ok(PyFloat(2009, 1000))
    ELSE IF df >= 40 THEN Ok(PyFloat(2021, 1000))
    ELSE GetItem(_T_DIST_95_CONF_LEVELS, df)

\* _tdist95conf_level(df), df an int (int(round(df)) is df)
_tdist95conf_level(df) ==
    LET highest_table_df == Len(_T_DIST_95_CONF_LEVELS)
    IN  IF df >= 200 THEN Ok(PyFloat(1960, 1000))
        ELSE IF df >= 100 THEN Ok(PyFloat(1984, 1000))
        ELSE IF df >= 80 THEN Ok(PyFloat(1990, 1000))
        ELSE IF df >= 60 THEN Ok(PyFloat(2000, 1000))
        ELSE IF df >= 50 THEN Ok(PyFloat(2009, 1000))
        ELSE IF df >= 40 THEN Ok(PyFloat(2021, 1000))
        ELSE IF df >= highest_table_df
        THEN GetItem(_T_DIST_95_CONF_LEVELS, highest_table_df - 1)
        ELSE GetItem(_T_DIST_95_CONF_LEVELS, df)

\* the degrees of freedom tried: -2 is what is_significant passes for two
\* empty samples
MaxDf == 201
DfInputs == -2..MaxDf

\* _tdist95conf_level(df)
TDist(df) ==
    /\ LET r == _tdist95conf_level(df)
       IN  ret' = [op |-> "_tdist95conf_level", self |-> "", exc |-> r.exc,
                   msg |-> r.msg, value |-> r.b, df |-> df]
    /\ UNCHANGED <<heap, suite>>

NextTDist == ret.op = "start" /\ \E df \in DfInputs : TDist(df)

SpecTDist == Init /\ [][NextTDist]_vars

\* C13: for every integer df >= 1 the critical value is 1.960 from 200,
\* 1.984 from 100, 1.990 from 80, 2.000 from 60, 2.009 from 50, 2.021 from
\* 40, the table's last entry (2.042, for df = 30) from 31 to 39 and the
\* table's entry for df from 1 to 30; the lookup never leaves the table and
\* the value does not increase with df.
C13_CriticalValue ==
    (ret.op = "_tdist95conf_level" /\ ret.df >= 1) =>
        LET df == ret.df
        IN  /\ ret.exc = ""
            /\ ret.value =
                   CASE df >= 200 -> PyFloat(1960, 1000)
                     [] df >= 100 /\ df < 200 -> PyFloat(1984, 1000)
                     [] df >= 80 /\ df < 100 -> PyFloat(1990, 1000)
                     [] df >= 60 /\ df < 80 -> PyFloat(2000, 1000)
                     [] df >= 50 /\ df < 60 -> PyFloat(2009, 1000)
                     [] df >= 40 /\ df < 50 -> PyFloat(2021, 1000)
                     [] df >= 31 /\ df < 40 -> PyFloat(2042, 1000)
                     [] df >= 1 /\ df <= 30 -> _T_DIST_95_CONF_LEVELS[df + 1]
            /\ _T_DIST_95_CONF_LEVELS[31] = PyFloat(2042, 1000)
            /\ df >= 2 => Leq(ret.value, _tdist95conf_level(df - 1).b)

\* the critical value for 35 degrees of freedom, past the table's end, was
\* looked up
C13_Witness ==
    /\ ret.op = "_tdist95conf_level"
    /\ ret.df = 35
    /\ ret.exc = ""
    /\ ret.value = PyFloat(2042, 1000)

\* a + b, a - b, a * b and a / n on floats, exactly
Add(a, b) == PyFloat(Num(a) * Den(b) + Num(b) * Den(a), Den(a) * Den(b))
Sub(a, b) == PyFloat(Num(a) * Den(b) - Num(b) * Den(a), Den(a) * Den(b))
Mul(a, b) == PyFloat(Num(a) * Num(b), Den(a) * Den(b))

\* True and False
PyBool(v) == [t |-> "bool", v |-> v]

\* the float a / math.sqrt(b) for b > 0: its sign and its square, in lowest
\* terms
DivSqrt(a, b) ==
    LET square == PyFloat(Num(a) * Num(a) * Den(b), Den(a) * Den(a) * Num(b))
    IN  [t |-> "float",
         sign |-> IF Num(a) > 0 THEN 1 ELSE IF Num(a) < 0 THEN -1 ELSE 0,
         sqnum |-> square.num, sqden |-> square.den]

\* abs(t) >= c for t as DivSqrt gives it and a float c >= 0
AbsGeq(t, c) == t.sqnum * Den(c) * Den(c) >= Num(c) * Num(c) * t.sqden

\* math.fsum(data)
RECURSIVE fsum(_)
fsum(data) == IF data = <<>> THEN PyFloat(0, 1) ELSE Add(Head(data), fsum(Tail(data)))

\* statistics.mean(data) for non-empty data
statistics_mean(data) == TrueDiv(fsum(data), Len(data))

\* ((x - mean) ** 2 for x in sample)
Squares(sample, mean) ==
    [k \in 1..Len(sample) |-> Mul(Sub(sample[k], mean), Sub(sample[k], mean))]

\* _pooled_sample_variance(sample1, sample2)
_pooled_sample_variance(sample1, sample2) ==
    LET deg_freedom == Len(sample1) + Len(sample2) - 2
    IN  IF sample1 = <<>> \/ sample2 = <<>>
        THEN Raise("StatisticsError", "mean requires at least one data point", None)
        ELSE IF deg_freedom = 0
        THEN Raise("ZeroDivisionError", "float division by zero", None)
        ELSE Ok(TrueDiv(Add(fsum(Squares(sample1, statistics_mean(sample1))),
                            fsum(Squares(sample2, statistics_mean(sample2)))),
                        deg_freedom))

\* _tscore(sample1, sample2)
_tscore(sample1, sample2) ==
    IF Len(sample1) # Len(sample2)
    THEN Raise("ValueError", "different number of samples", None)
    ELSE TheOne({IF variance.exc # "" THEN variance
                 ELSE IF Num(variance.b) = 0
                 THEN Raise("ZeroDivisionError", "float division by zero", None)
                 ELSE Ok(DivSqrt(Sub(statistics_mean(sample1), statistics_mean(sample2)),
                                 Mul(TrueDiv(variance.b, Len(sample1)), PyFloat(2, 1))))
                 : variance \in {_pooled_sample_variance(sample1, sample2)}})

\* is_significant(sample1, sample2)
is_significant(sample1, sample2) ==
    TheOne({IF critical_value.exc # "" THEN critical_value ELSE
    TheOne({IF t_score.exc # "" THEN t_score
            ELSE Ok(PyTuple(<<PyBool(AbsGeq(t_score.b, critical_value.b)), t_score.b>>))
            : t_score \in {_tscore(sample1, sample2)}})
            : critical_value \in {_tdist95conf_level(Len(sample1) + Len(sample2) - 2)}})

\* the samples compared: every sequence of at most MaxLen of 1.0, 2.0, 9.0
SignificantInputs == SeqsUpTo({PyFloat(1, 1), PyFloat(2, 1), PyFloat(9, 1)}, MaxLen)

\* is_significant(sample1, sample2): ret keeps the two arguments as they are
\* after the call
IsSignificant(sample1, sample2) ==
    /\ LET r == is_significant(sample1, sample2)
       IN  ret' = [op |-> "is_significant", self |-> "", exc |-> r.exc, msg |-> r.msg,
                   value |-> r.b, sample1 |-> sample1, sample2 |-> sample2]
    /\ UNCHANGED <<heap, suite>>

NextSignificant ==
    ret.op = "start" /\ \E sample1, sample2 \in SignificantInputs :
                            IsSignificant(sample1, sample2)

SpecSignificant == Init /\ [][NextSignificant]_vars

\* mean(a), and the sum of the squared deviations of a from it
C14_Mean(a) == TrueDiv(fsum(a), Len(a))
C14_Deviations(a) == fsum([k \in 1..Len(a) |-> Mul(Sub(a[k], C14_Mean(a)), Sub(a[k], C14_Mean(a)))])

\* C14: is_significant(a, b) raises ValueError when len(a) != len(b); for
\* non-empty samples of equal length it returns (significant, t) with
\* t = (mean(a) - mean(b)) / sqrt(2 * pooled_variance / len(a)),
\* pooled_variance the two sums of squared deviations over len(a)+len(b)-2,
\* and significant true exactly when |t| >= critical_value_95(len(a)+len(b)-2).
C14_IsSignificant ==
    ret.op = "is_significant" =>
        LET a == ret.sample1
            b == ret.sample2
        IN  /\ Len(a) # Len(b) => ret.exc = "ValueError"
            /\ (Len(a) = Len(b) /\ a # <<>>) =>
                  /\ ret.exc = ""
                  /\ LET t == ret.value.u[2]
                         diff == Sub(C14_Mean(a), C14_Mean(b))
                         pooled == TrueDiv(Add(C14_Deviations(a), C14_Deviations(b)),
                                           Len(a) + Len(b) - 2)
                         under == TrueDiv(Mul(pooled, PyFloat(2, 1)), Len(a))
                         critical == _tdist95conf_level(Len(a) + Len(b) - 2).b
                     IN  /\ t.sqnum * Num(under) * Den(diff) * Den(diff)
                               = Num(diff) * Num(diff) * Den(under) * t.sqden
                         /\ t.sign * Num(diff) >= 0
                         /\ (t.sign = 0) = (Num(diff) = 0)
                         /\ ret.value.u[1].v
                               = (t.sqnum * Den(critical) * Den(critical)
                                     >= Num(critical) * Num(critical) * t.sqden)

\* ------------------------------------------------- the formatting functions
\* str(n) for an int n
RECURSIVE Digits(_)
Digits(n) ==
    IF n < 10 THEN <<<<"0", "1", "2", "3", "4", "5", "6", "7", "8", "9">>[n + 1]>>
    ELSE Digits(n \div 10) \o Digits(n % 10)

IntToStr(n) == IF n < 0 THEN <<"-">> \o Digits(-n) ELSE Digits(n)

\* while x >= 10: x //= 10; pow10 += 1
RECURSIVE Pow10Loop(_, _)
Pow10Loop(x, pow10) == IF x >= 10 THEN Pow10Loop(x \div 10, pow10 + 1) ELSE pow10

\* n.bit_length() for n >= 0
RECURSIVE bit_length(_)
bit_length(n) == IF n = 0 THEN 0 ELSE 1 + bit_length(n \div 2)

\* _format_number taking the plural from the sign of the number too
_format_number_signed_plural(number, unit, units) ==
    LET plural == number > 1
        text == IF number >= 10000 /\ number % 10 = 0
                THEN <<"1", "0", "^">> \o IntToStr(Pow10Loop(number, 0))
                ELSE IF number > 8192 /\ number % 2 = 0
                THEN <<"2", "^">> \o IntToStr(bit_length(number) - 1)
                ELSE IntToStr(number)
    IN  IF ~Truthy(unit) THEN PyStr(text)
        ELSE IF plural
        THEN PyStr(text \o <<" ">> \o (IF ~Truthy(units) THEN unit.s \o <<"s">> ELSE units.s))
        ELSE PyStr(text \o <<" ">> \o unit.s)

\* _format_number(number, unit, units) for an int number
_format_number(number, unit, units) ==
    LET plural == Abs(number) > 1
        text == IF number >= 10000 /\ number % 10 = 0
                THEN <<"1", "0", "^">> \o IntToStr(Pow10Loop(number, 0))
                ELSE IF number > 8192 /\ number % 2 = 0
                THEN <<"2", "^">> \o IntToStr(bit_length(number) - 1)
                ELSE IntToStr(number)
    IN  IF ~Truthy(unit) THEN PyStr(text)
        ELSE IF plural
        THEN PyStr(text \o <<" ">> \o (IF ~Truthy(units) THEN unit.s \o <<"s">> ELSE units.s))
        ELSE PyStr(text \o <<" ">> \o unit.s)

\* the numbers formatted: around 0 and 1, around 8192 and 10000, powers of 2
\* and of 10 and other multiples of them
NumberInputs ==
    (-2..12) \cup {-20000, -16384, 100, 1024, 4096, 8190, 8192, 8193, 8194, 9990, 9999,
                   10000, 10001, 10002, 10010, 12288, 16384, 20000, 65536, 100000,
                   131072, 1000000}
UnitInputs == {None, PyStr(<<>>), PyStr(<<"f", "o", "o", "t">>)}
UnitsInputs == {None, PyStr(<<>>), PyStr(<<"f", "e", "e", "t">>)}

\* _format_number(number, unit, units)
FormatNumber(number, unit, units) ==
    /\ ret' = [op |-> "_format_number", self |-> "", exc |-> "", msg |-> "",
               value |-> _format_number(number, unit, units),
               number |-> number, unit |-> unit, units |-> units]
    /\ UNCHANGED <<heap, suite>>

NextFormatNumber ==
    ret.op = "start" /\ \E number \in NumberInputs, unit \in UnitInputs, units \in UnitsInputs :
                            FormatNumber(number, unit, units)

SpecFormatNumber == Init /\ [][NextFormatNumber]_vars

\* the number as format_number abbreviates it
C15_Text(n) ==
    IF n % 10 = 0 /\ n >= 10000
    THEN <<"1", "0", "^">> \o IntToStr(CHOOSE k \in 0..9 : 10 ^ k <= n /\ n < 10 ^ (k + 1))
    ELSE IF n % 2 = 0 /\ n > 8192
    THEN <<"2", "^">> \o IntToStr(CHOOSE k \in 0..30 : 2 ^ k <= n /\ n < 2 ^ (k + 1))
    ELSE IntToStr(n)

\* C15: format_number(n) of an integer n is '10^k' if n is a multiple of 10
\* and n >= 10000, else '2^k' if n is a multiple of 2 and n > 8192, else the
\* plain number (16384 -> '2^14', 10000 -> '10^4', 7 -> '7'); a unit is
\* appended in its plural form (units, or unit + 's') exactly when |n| > 1,
\* in its singular form otherwise.
C15_FormatNumber ==
    ret.op = "_format_number" =>
        LET n == ret.number
            given == ret.unit \notin {None, PyStr(<<>>)}
            plural == IF ret.units \in {None, PyStr(<<>>)} THEN ret.unit.s \o <<"s">>
                      ELSE ret.units.s
        IN  /\ ~given => ret.value = PyStr(C15_Text(n))
            /\ given =>
                  ret.value = PyStr(C15_Text(n) \o <<" ">> \o
                                       (IF n > 1 \/ n < -1 THEN plural ELSE ret.unit.s))
            /\ (n = 16384 /\ ~given) => ret.value = PyStr(<<"2", "^", "1", "4">>)
            /\ (n = 10000 /\ ~given) => ret.value = PyStr(<<"1", "0", "^", "4">>)
            /\ (n = 7 /\ ~given) => ret.value = PyStr(<<"7">>)

\* -2 was formatted with a unit and no plural form of its own
C15_Witness ==
    /\ ret.op = "_format_number"
    /\ ret.number = -2
    /\ ret.unit = PyStr(<<"f", "o", "o", "t">>)
    /\ ret.units = None
    /\ ret.value = PyStr(<<"-", "2", " ", "f", "o", "o", "t", "s">>)

_TIMEDELTA_UNITS ==
    <<PyStr(<<"s", "e", "c">>), PyStr(<<"m", "s">>), PyStr(<<"u", "s">>), PyStr(<<"n", "s">>)>>

\* a float that is a square root: its sign and its square
IsRoot(v) == "sqnum" \in DOMAIN v
Root(sign, square) ==
    [t |-> "float", sign |-> sign, sqnum |-> Num(square), sqden |-> Den(square)]

\* math.sqrt(value) for value >= 0
sqrt(v) == Root(IF Num(v) = 0 THEN 0 ELSE 1, v)

\* the largest int whose square is at most n, between lo and hi
RECURSIVE IsqrtIn(_, _, _)
IsqrtIn(n, lo, hi) ==
    IF lo >= hi THEN lo
    ELSE LET mid == (lo + hi + 1) \div 2
         IN  IF mid * mid <= n THEN IsqrtIn(n, mid, hi) ELSE IsqrtIn(n, lo, mid - 1)

Isqrt(n) == IsqrtIn(n, 0, IF n < 46340 THEN n ELSE 46340)

\* abs(value) and -value on floats
FAbs(v) ==
    IF IsRoot(v) THEN Root(Abs(v.sign), PyFloat(v.sqnum, v.sqden))
    ELSE PyFloat(Abs(Num(v)), Den(v))
Neg(v) == PyFloat(-Num(v), Den(v))

\* value * factor for an int factor >= 1
ScaleRatio(v, factor) ==
    LET g == Gcd(factor, Den(v))
    IN  PyFloat(Num(v) * (factor \div g), Den(v) \div g)

Scale(v, factor) ==
    IF IsRoot(v)
    THEN Root(v.sign, ScaleRatio(ScaleRatio(PyFloat(v.sqnum, v.sqden), factor), factor))
    ELSE ScaleRatio(v, factor)

\* the int nearest to a float >= 0, a tie going to the even one
RoundHalfEven(v) ==
    IF IsRoot(v)
    THEN LET floor == Isqrt(v.sqnum \div v.sqden)
             odd == (2 * floor + 1) * (2 * floor + 1) * v.sqden
         IN  IF 4 * v.sqnum > odd THEN floor + 1
             ELSE IF 4 * v.sqnum < odd THEN floor
             ELSE IF floor % 2 = 0 THEN floor ELSE floor + 1
    ELSE LET floor == Num(v) \div Den(v)
             twice == 2 * (Num(v) % Den(v))
         IN  IF twice > Den(v) THEN floor + 1
             ELSE IF twice < Den(v) THEN floor
             ELSE IF floor % 2 = 0 THEN floor ELSE floor + 1

\* ref_value >= 10.0 ** i for ref_value >= 0
GeqPow10(ref_value, i) ==
    IF i >= 0 THEN Num(ref_value) \div Den(ref_value) >= 10 ^ i
    ELSE Num(ref_value) >= (Den(ref_value) + 10 ^ (-i) - 1) \div 10 ^ (-i)

\* for i in range(2, -9, -1): if ref_value >= 10.0 ** i: break; else: i = -9
RECURSIVE Exponent(_, _)
Exponent(ref_value, i) ==
    IF i <= -9 THEN -9
    ELSE IF GeqPow10(ref_value, i) THEN i
    ELSE Exponent(ref_value, i - 1)

\* digits with zeros in front up to a width
RECURSIVE ZeroPad(_, _)
ZeroPad(digits, width) ==
    IF Len(digits) >= width THEN digits ELSE ZeroPad(<<"0">> \o digits, width)

\* "%.<precision>f" % value: the nearest decimal with that many digits, a tie
\* going to the even one
FixedPoint(value, precision) ==
    LET rounded == RoundHalfEven(Scale(FAbs(value), 10 ^ precision))
        digits == ZeroPad(Digits(rounded), precision + 1)
        whole == SubSeq(digits, 1, Len(digits) - precision)
        decimals == SubSeq(digits, Len(digits) - precision + 1, Len(digits))
    IN  (IF (IF IsRoot(value) THEN value.sign ELSE Num(value)) < 0 THEN <<"-">> ELSE <<>>)
            \o whole \o (IF precision > 0 THEN <<".">> \o decimals ELSE <<>>)

\* fmt % (value * factor,) with fmt = "%%.%sf %s" % (precision, unit)
FormatWith(value, precision, k) ==
    PyStr(FixedPoint(Scale(value, 10 ^ (k * 3)), precision)
              \o <<" ">> \o _TIMEDELTA_UNITS[k + 1].s)

\* _format_timedeltas taking the unit and the precision of each value from
\* that value
_format_timedeltas_each(values) ==
    IF values = <<>> THEN Raise("IndexError", "tuple index out of range", None)
    ELSE Ok(PyTuple([n \in 1..Len(values) |->
                LET i == Exponent(FAbs(values[n]), 2)
                IN  FormatWith(values[n], 2 - (i % 3), IF i < 0 THEN -(i \div 3) ELSE 0)]))

\* _format_timedeltas(values)
_format_timedeltas(values) ==
    IF values = <<>> THEN Raise("IndexError", "tuple index out of range", None)
    ELSE LET ref_value == FAbs(values[1])
             i == Exponent(ref_value, 2)
             precision == 2 - (i % 3)
             k == IF i < 0 THEN -(i \div 3) ELSE 0
         IN  Ok(PyTuple([n \in 1..Len(values) |-> FormatWith(values[n], precision, k)]))

\* the first values formatted: the bounds of the units and of their decades,
\* the spec's examples, values that round at a tie, zero, a negative value and
\* a value under a nanosecond
RefInputs ==
    {PyFloat(1234, 1), PyFloat(100, 1), PyFloat(201, 2), PyFloat(203, 2), PyFloat(999, 10),
     PyFloat(10, 1), PyFloat(3, 2), PyFloat(-3, 2), PyFloat(1, 1), PyFloat(999, 1000),
     PyFloat(1, 8), PyFloat(1, 100), PyFloat(1, 1000), PyFloat(999, 1000000),
     PyFloat(1, 100000), PyFloat(1234, 1000000000), PyFloat(1, 1000000),
     PyFloat(999, 1000000000), PyFloat(1, 100000000), PyFloat(1, 1000000000),
     PyFloat(1, 1073741824), PyFloat(0, 1)}

\* the values after the first, as multiples of it
Multiples == {0, -1, 3, 10}

RECURSIVE TimesEach(_, _)
TimesEach(value, multiples) ==
    IF multiples = <<>> THEN <<>>
    ELSE <<IF Head(multiples) < 0 THEN Neg(Scale(value, -Head(multiples)))
           ELSE IF Head(multiples) = 0 THEN PyFloat(0, 1)
           ELSE Scale(value, Head(multiples))>> \o TimesEach(value, Tail(multiples))

\* the empty sequence and every sequence of at most MaxLen values
TimedeltaInputs ==
    {<<>>} \cup {<<ref>> \o TimesEach(ref, rest) :
                    ref \in RefInputs,
                    rest \in {q \in SeqsUpTo(Multiples, MaxLen) : Len(q) < MaxLen}}

\* _format_timedeltas(values)
FormatTimedeltas(values) ==
    /\ LET r == _format_timedeltas(values)
       IN  ret' = [op |-> "_format_timedeltas", self |-> "", exc |-> r.exc, msg |-> r.msg,
                   value |-> r.b, values |-> values]
    /\ UNCHANGED <<heap, suite>>

NextFormatTimedeltas ==
    ret.op = "start" /\ \E values \in TimedeltaInputs : FormatTimedeltas(values)

SpecFormatTimedeltas == Init /\ [][NextFormatTimedeltas]_vars

\* the index of the unit of a reference value >= 0: sec from 1, ms from
\* 1e-3, us from 1e-6, ns below
C16_Unit(ref) ==
    IF Num(ref) >= Den(ref) THEN 0
    ELSE IF Num(ref) * 1000 >= Den(ref) THEN 1
    ELSE IF Num(ref) * 1000000 >= Den(ref) THEN 2
    ELSE 3

\* the digits after the point for a reference value expressed in its unit:
\* 2 in the lowest decade, 1 in the middle one, 0 in the highest
C16_Precision(inUnit) ==
    IF Num(inUnit) >= 100 * Den(inUnit) THEN 0
    ELSE IF Num(inUnit) >= 10 * Den(inUnit) THEN 1
    ELSE 2

\* C16: format_timedeltas(values) takes one unit and one precision from the
\* absolute value of the first value and renders every value with them: sec
\* from 1, ms in [1e-3, 1), us in [1e-6, 1e-3), ns below 1e-6 (0 included);
\* 2, 1 or 0 digits as the reference is in the lowest, middle or highest
\* decade of its unit (0.000001234 -> '1.23 us', 1.5 -> '1.50 sec'); one
\* string per value.
C16_FormatTimedeltas ==
    (ret.op = "_format_timedeltas" /\ ret.values # <<>>) =>
        LET ref == FAbs(ret.values[1])
            k == C16_Unit(ref)
            precision == C16_Precision(Scale(ref, 10 ^ (3 * k)))
        IN  /\ ret.exc = ""
            /\ Len(ret.value.u) = Len(ret.values)
            /\ \A n \in 1..Len(ret.values) :
                  ret.value.u[n] =
                      PyStr(FixedPoint(Scale(ret.values[n], 10 ^ (3 * k)), precision)
                                \o <<" ">> \o <<<<"s", "e", "c">>, <<"m", "s">>,
                                               <<"u", "s">>, <<"n", "s">>>>[k + 1])
            /\ ret.values = <<PyFloat(1234, 1000000000)>> =>
                  ret.value.u = <<PyStr(<<"1", ".", "2", "3", " ", "u", "s">>)>>
            /\ ret.values = <<PyFloat(3, 2)>> =>
                  ret.value.u = <<PyStr(<<"1", ".", "5", "0", " ", "s", "e", "c">>)>>

\* 0.01 sec and ten times it were formatted together, both in ms with one
\* digit
C16_Witness ==
    /\ ret.op = "_format_timedeltas"
    /\ ret.values = <<PyFloat(1, 100), PyFloat(1, 10)>>
    /\ ret.value.u = <<PyStr(<<"1", "0", ".", "0", " ", "m", "s">>),
                       PyStr(<<"1", "0", "0", ".", "0", " ", "m", "s">>)>>

\* ------------------------------------------ reading and formatting a Benchmark
\* get_nrun() and get_nsample()
get_nrun(b) == Len(b.runs)

get_nsample(b) ==
    LET nrun == Len(b.runs)
    IN  IF nrun = 0 THEN 0 ELSE nrun * (Len(b.runs[1].u) - b.warmups.i)

\* get_runs handing out the list the object keeps
get_runs_no_copy(b) ==
    [exc |-> "", msg |-> "", b |-> b, value |-> PyList(b.runs), shared |-> TRUE]

\* get_runs(): list(self._runs), a new list of the same runs; shared tells
\* whether the returned list is the list the object keeps
get_runs(b) ==
    [exc |-> "", msg |-> "", b |-> b, value |-> PyList(b.runs), shared |-> FALSE]

\* statistics.stdev(data)
statistics_stdev(data) ==
    IF Len(data) < 2
    THEN Raise("StatisticsError", "variance requires at least two data points", None)
    ELSE Ok(sqrt(TrueDiv(fsum(Squares(data, statistics_mean(data))), Len(data) - 1)))

\* format(): the text, and the object with the caches the call filled
format(b) ==
    IF get_nrun(b) = 0
    THEN [exc |-> "", msg |-> "", b |-> b, value |-> PyStr(<<"<", "n", "o", " ", "r", "u", "n", ">">>)]
    ELSE IF get_nsample(b) >= 2
    THEN TheOne({IF samples.exc # "" THEN samples ELSE
         TheOne({IF m.exc # "" THEN m ELSE
         TheOne({IF stdev.exc # ""
                 THEN [exc |-> stdev.exc, msg |-> stdev.msg, b |-> m.b, value |-> None]
                 ELSE LET numbers == _format_timedeltas(<<m.value, stdev.b>>).b.u
                      IN  [m EXCEPT !.value = PyStr(numbers[1].s \o <<" ", "+", "-", " ">> \o numbers[2].s)]
                 : stdev \in {statistics_stdev(samples.value.u)}})
                 : m \in {median(samples.b)}})
                 : samples \in {get_samples(b)}})
    ELSE TheOne({IF m.exc # "" THEN m
                 ELSE [m EXCEPT !.value = _format_timedeltas(<<m.value>>).b.u[1]]
                 : m \in {median(b)}})

\* __str__()
__str__(b) ==
    TheOne({IF text.exc # "" THEN text
            ELSE IF get_nsample(b) >= 2
            THEN [text EXCEPT !.value = PyStr(<<"M", "e", "d", "i", "a", "n", " ", "+", "-", " ", "s", "t", "d", " ", "d", "e", "v", ":", " ">> \o text.value.s)]
            ELSE [text EXCEPT !.value = PyStr(<<"M", "e", "d", "i", "a", "n", ":", " ">> \o text.value.s)]
            : text \in {format(b)}})

\* o.get_nrun(), o.get_nsample(), o.get_loops()
GetNrun(o) ==
    /\ o \in DOMAIN heap
    /\ ret' = Call("get_nrun", o, Ok(None), PyInt(get_nrun(heap[o])))
    /\ UNCHANGED <<heap, suite>>

GetNsample(o) ==
    /\ o \in DOMAIN heap
    /\ ret' = Call("get_nsample", o, Ok(None), PyInt(get_nsample(heap[o])))
    /\ UNCHANGED <<heap, suite>>

GetLoops(o) ==
    /\ o \in DOMAIN heap
    /\ LET r == get_loops(heap[o])
       IN  ret' = Call("get_loops", o, r, IF r.exc = "" THEN PyInt(r.b) ELSE None)
    /\ UNCHANGED <<heap, suite>>

\* o.get_runs(): ret remembers whether the returned list is the object's own
GetRuns(o) ==
    /\ o \in DOMAIN heap
    /\ LET r == get_runs(heap[o])
       IN  ret' = [op |-> "get_runs", self |-> o, exc |-> r.exc, msg |-> r.msg,
                   value |-> r.value, shared |-> r.shared]
    /\ UNCHANGED <<heap, suite>>

\* the caller changes the list get_runs() returned: del runs[:] or
\* runs.append(run); a list shared with the object changes there too
ChangeReturnedList(items) ==
    /\ ret.op = "get_runs"
    /\ ret' = [ret EXCEPT !.op = "changed get_runs", !.value = PyList(items)]
    /\ heap' = IF ret.shared THEN [heap EXCEPT ![ret.self].runs = items] ELSE heap
    /\ UNCHANGED suite

\* o.format() and str(o)
Format(o) ==
    /\ o \in DOMAIN heap
    /\ LET r == format(heap[o])
       IN  /\ heap' = [heap EXCEPT ![o] = r.b]
           /\ ret' = Call("format", o, r, r.value)
    /\ UNCHANGED suite

Str(o) ==
    /\ o \in DOMAIN heap
    /\ LET r == __str__(heap[o])
       IN  /\ heap' = [heap EXCEPT ![o] = r.b]
           /\ ret' = Call("__str__", o, r, r.value)
    /\ UNCHANGED suite

\* --------------------------- one Benchmark, written, read and formatted
\* the runs offered: for every length up to MaxLen the run of 1.0, the run of
\* 3 and the run alternating them, and three lists add_run refuses
RECURSIVE Alternate(_, _, _)
Alternate(n, first, second) ==
    IF n = 0 THEN <<>> ELSE <<first>> \o Alternate(n - 1, second, first)

ReadRunInputs ==
    {PyList(Alternate(n, v[1], v[2])) :
        n \in 1..MaxLen,
        v \in {<<PyFloat(1, 1), PyFloat(1, 1)>>, <<PyInt(3), PyInt(3)>>,
               <<PyFloat(1, 1), PyInt(3)>>}}
        \cup {PyList(<<>>), PyList(<<PyInt(0)>>), PyList(<<NotANumber>>)}
ReadLoopsInputs == {PyInt(0), PyInt(1), PyInt(2), PyFloat(2, 1)}
ReadInnerLoopsInputs == {None, PyInt(0), PyInt(2)}
ReadWarmupsInputs == {None, PyInt(-1), PyInt(0), PyInt(1), PyInt(2)}
ReadNameInputs == {None, PyStr(<<"a">>)}

NextRead ==
    \/ /\ heap = [o \in {} |-> Blank]
       /\ \E loops \in ReadLoopsInputs, inner_loops \in ReadInnerLoopsInputs,
             warmups \in ReadWarmupsInputs :
             New("o1", PyStr(<<"a">>), loops, inner_loops, warmups, None)
    \/ \E value \in ReadLoopsInputs : SetLoops("o1", value)
    \/ \E value \in ReadInnerLoopsInputs : SetInnerLoops("o1", value)
    \/ \E value \in ReadWarmupsInputs : SetWarmups("o1", value)
    \/ \E value \in ReadNameInputs : SetName("o1", value)
    \/ \E samples \in ReadRunInputs : AddRun("o1", samples)
    \/ GetSamples("o1")
    \/ Median("o1")
    \/ GetNrun("o1")
    \/ GetNsample("o1")
    \/ GetLoops("o1")
    \/ GetRuns("o1")
    \/ ChangeReturnedList(<<>>)
    \/ ChangeReturnedList(Append(ret.value.l, PyTuple(<<PyFloat(1, 1)>>)))
    \/ Format("o1")
    \/ Str("o1")

SpecRead == Init /\ [][NextRead]_vars

\* C17: the stored runs are append-only. In every step the runs of a
\* Benchmark either stay exactly as they were, or the step is a successful
\* add_run and the runs are the old runs, in place and unchanged, followed by
\* one new run. So the assignments to loops, inner_loops, warmups and name,
\* a refused add_run, every read (get_samples, median, get_runs, get_nrun,
\* get_nsample, get_loops, format, str) and a change made to the list that
\* get_runs() returned all leave the stored runs as they were.
C17_RunsAppendOnly ==
    [][\A o \in DOMAIN heap :
          /\ o \in DOMAIN heap'
          /\ \/ heap'[o].runs = heap[o].runs
             \/ /\ ret'.op = "add_run" /\ ret'.self = o /\ ret'.exc = ""
                /\ Len(heap'[o].runs) = Len(heap[o].runs) + 1
                /\ SubSeq(heap'[o].runs, 1, Len(heap[o].runs)) = heap[o].runs]_vars

\* the list get_runs() returned was emptied by the caller while the Benchmark
\* still holds the two runs it was given
C17_Witness ==
    /\ ret.op = "changed get_runs"
    /\ ret.value = PyList(<<>>)
    /\ Len(heap["o1"].runs) = 2

\* C18: in every reachable state loops is an int >= 1, warmups an int >= 0
\* and inner_loops is None or an int >= 1; assigning anything else to one of
\* the three raises ValueError and leaves the object, its stored value and
\* its caches included, as it was; and get_loops() never raises and returns
\* loops * inner_loops when inner_loops is set and loops otherwise, which is
\* at least 1.
C18_ValidLoops(v) == IsInt(v) /\ v.i >= 1
C18_ValidInnerLoops(v) == v = None \/ (IsInt(v) /\ v.i >= 1)
C18_ValidWarmups(v) == IsInt(v) /\ v.i >= 0

C18_LoopCounts ==
    /\ [](\A o \in DOMAIN heap :
            /\ C18_ValidLoops(heap[o].loops)
            /\ C18_ValidInnerLoops(heap[o].inner_loops)
            /\ C18_ValidWarmups(heap[o].warmups))
    /\ [][/\ \A v \in ReadLoopsInputs :
                SetLoops("o1", v) /\ ~C18_ValidLoops(v)
                    => ret'.exc = "ValueError" /\ heap' = heap
          /\ \A v \in ReadInnerLoopsInputs :
                SetInnerLoops("o1", v) /\ ~C18_ValidInnerLoops(v)
                    => ret'.exc = "ValueError" /\ heap' = heap
          /\ \A v \in ReadWarmupsInputs :
                SetWarmups("o1", v) /\ ~C18_ValidWarmups(v)
                    => ret'.exc = "ValueError" /\ heap' = heap]_vars
    /\ [](ret.op = "get_loops" =>
            /\ ret.exc = ""
            /\ ret.value.i >= 1
            /\ ret.value.i = IF heap[ret.self].inner_loops # None
                             THEN heap[ret.self].loops.i * heap[ret.self].inner_loops.i
                             ELSE heap[ret.self].loops.i)

\* inner_loops = 0 was refused on a Benchmark of 2 loops and 2 inner loops
\* whose samples and median were cached, and they still are
C18_Witness ==
    /\ ret.op = "inner_loops" /\ ret.exc = "ValueError"
    /\ heap["o1"].loops = PyInt(2) /\ heap["o1"].inner_loops = PyInt(2)
    /\ heap["o1"].samples # None /\ heap["o1"].median # None

\* C19: whenever get_nsample() has returned, its value is
\* nrun * (run_length - warmups), 0 when there are no runs, it is not
\* negative, and it is the number of values get_samples() returns in that
\* state. Violated: warmups can be assigned a value greater than the length
\* of the stored runs (C5), and then get_nsample() is negative while
\* get_samples() returns the empty tuple.
C19_NsampleCountsSamples ==
    ret.op = "get_nsample" =>
        LET b == heap[ret.self]
            samples == get_samples(b)
        IN  /\ ret.exc = ""
            /\ ret.value.i = IF b.runs = <<>> THEN 0
                             ELSE Len(b.runs) * (Len(b.runs[1].u) - b.warmups.i)
            /\ ret.value.i >= 0
            /\ samples.exc = ""
            /\ ret.value.i = Len(samples.value.u)

\* C20: for a Benchmark with at least one run, format() does not raise and
\* returns '<median> +- <stdev>', the two formatted together, exactly when
\* get_nsample() >= 2 and the median formatted alone otherwise; str() puts
\* 'Median +- std dev: ' before that text in the first case and 'Median: '
\* in the second; with no runs format() returns '<no run>' and no median is
\* computed. Violated: once warmups equals the length of the stored runs
\* (C5) there is no sample, and format() raises StatisticsError out of
\* median().
C20_Text(b) ==
    LET samples == get_samples(b).value.u
        m == median(b).value
    IN  IF get_nsample(b) >= 2
        THEN LET numbers == _format_timedeltas(<<m, statistics_stdev(samples).b>>).b.u
             IN  numbers[1].s \o <<" ", "+", "-", " ">> \o numbers[2].s
        ELSE _format_timedeltas(<<m>>).b.u[1].s

C20_Format ==
    /\ (ret.op = "format" /\ heap[ret.self].runs = <<>>) =>
          /\ ret.exc = ""
          /\ ret.value = PyStr(<<"<", "n", "o", " ", "r", "u", "n", ">">>)
          /\ heap[ret.self].median = None
    /\ (ret.op = "format" /\ heap[ret.self].runs # <<>>) =>
          /\ ret.exc = ""
          /\ ret.value = PyStr(C20_Text(heap[ret.self]))
    /\ (ret.op = "__str__" /\ heap[ret.self].runs # <<>>) =>
          /\ ret.exc = ""
          /\ ret.value =
                PyStr((IF get_nsample(heap[ret.self]) >= 2
                       THEN <<"M", "e", "d", "i", "a", "n", " ", "+", "-", " ",
                              "s", "t", "d", " ", "d", "e", "v", ":", " ">>
                       ELSE <<"M", "e", "d", "i", "a", "n", ":", " ">>)
                      \o C20_Text(heap[ret.self]))

\* the text begins with the abbreviation and continues, if at all, with the
\* blank before the unit
C21_Renders(text, abbreviation) ==
    /\ Len(text) >= Len(abbreviation)
    /\ SubSeq(text, 1, Len(abbreviation)) = abbreviation
    /\ Len(text) = Len(abbreviation) \/ text[Len(abbreviation) + 1] = " "

\* C21: whenever format_number renders an integer n as '10^k', n is 10^k, and
\* whenever it renders n as '2^k', n is 2^k. Violated: the abbreviation is
\* chosen for every multiple of 10 from 10000 on and every even number above
\* 8192, so 10010 is rendered '10^4' and 8194 '2^13'.
C21_AbbreviationIsExact ==
    ret.op = "_format_number" =>
        /\ \A k \in 0..9 :
              C21_Renders(ret.value.s, <<"1", "0", "^">> \o IntToStr(k))
                  => ret.number = 10 ^ k
        /\ \A k \in 0..30 :
              C21_Renders(ret.value.s, <<"2", "^">> \o IntToStr(k))
                  => ret.number = 2 ^ k

\* C22: every benchmark of a suite is stored under its current name, in the
\* suite built by add_benchmark while benchmarks are renamed and in every
\* suite a load returns. Violated: renaming a benchmark that is in a suite
\* leaves it under its old key, and a load takes the key from the document's
\* benchmarks map (or legacy name member) and the name from the record's
\* metadata, which need not agree.
C22_KeyIsName ==
    /\ \A key \in DOMAIN suite : name_getter(heap[suite[key]]) = key
    /\ (ret.op = "load" /\ ret.exc = "") =>
          \A key \in DOMAIN ret.value.d : name_getter(ret.value.d[key]) = key

\* ------------------------------------------------------------ TextRunner
MaxNwarmup == 2
MaxNsample == 2
MaxProcesses == 2

\* perf.RunResult() and perf.Results() are not defined in perf/__init__.py;
\* they are what text_runner.py uses of them: a RunResult holds the lists
\* warmups and samples, a Results the list runs, and a new one holds nothing
RunResult == [warmups |-> <<>>, samples |-> <<>>]

Results == [runs |-> <<>>]

\* TextRunner.__init__(): the attributes of a new runner, and the position of
\* its one benchmark: pc, the remaining items of _range(), the sample that
\* waits for _add(), the values the measured function produced so far, and
\* the Results and the process number of _subprocesses()
TextRunner__init__ ==
    [result |-> RunResult, args |-> None, pc |-> "new", range |-> <<>>,
     sample |-> None, called |-> <<>>, results |-> Results, process |-> 0]

\* _range() without its first warmup
_range_skips_first_warmup(args) ==
    [i \in 1..(args.nwarmup - 1) |-> [is_warmup |-> TRUE, run |-> i]]
        \o [i \in 1..args.nsample |-> [is_warmup |-> FALSE, run |-> i - 1]]

\* _range(): the (is_warmup, run) pairs in the order the generator yields them
_range(args) ==
    [i \in 1..args.nwarmup |-> [is_warmup |-> TRUE, run |-> i - 1]]
        \o [i \in 1..args.nsample |-> [is_warmup |-> FALSE, run |-> i - 1]]

\* _add(is_warmup, run, sample): the result after the append
_add(result, is_warmup, run, sample) ==
    IF is_warmup
    THEN [result EXCEPT !.warmups = Append(@, sample)]
    ELSE [result EXCEPT !.samples = Append(@, sample)]

\* the command lines: -w, -n and -p from 0 up to their bounds, with or
\* without --raw
ArgsInputs ==
    [nwarmup : 0..MaxNwarmup, nsample : 0..MaxNsample, processes : 0..MaxProcesses,
     raw : BOOLEAN]

\* what one call of the measured function takes or returns
TimeInputs == {PyFloat(1, 1), PyFloat(3, 2)}

\* runner = TextRunner()
NewTextRunner(o) ==
    /\ o \notin DOMAIN heap
    /\ heap' = Put(heap, o, TextRunner__init__)
    /\ ret' = Call("TextRunner", o, Ok(None), None)
    /\ UNCHANGED suite

\* runner.bench_func(func) or runner.bench_sample_func(func), up to the first
\* item of the loop: _main() parses the arguments, then either starts
\* _subprocesses() or, with --raw, _display_headers() and the loop over
\* _range()
Main(o, op, args) ==
    /\ o \in DOMAIN heap
    /\ heap[o].pc = "new"
    /\ heap' = [heap EXCEPT ![o].args = args,
                            ![o].pc = IF ~args.raw THEN "_subprocesses" ELSE op,
                            ![o].range = IF ~args.raw THEN <<>> ELSE _range(args)]
    /\ ret' = Call(op, o, Ok(None), None)
    /\ UNCHANGED suite

\* one call of the measured function in the loop of _bench_func (the sample
\* is t2 - t1) or of _bench_sample_func (the sample is what func returns)
Invoke(o, dt) ==
    /\ o \in DOMAIN heap
    /\ heap[o].pc \in {"_bench_func", "_bench_sample_func"}
    /\ heap[o].sample = None
    /\ heap[o].range # <<>>
    /\ heap' = [heap EXCEPT ![o].called = Append(@, dt), ![o].sample = dt]
    /\ ret' = Call("func", o, Ok(None), dt)
    /\ UNCHANGED suite

\* self._add(is_warmup, run, sample), and the generator moves on
AddSample(o) ==
    /\ o \in DOMAIN heap
    /\ heap[o].sample # None
    /\ LET item == Head(heap[o].range)
       IN  heap' = [heap EXCEPT
                       ![o].result = _add(@, item.is_warmup, item.run, heap[o].sample),
                       ![o].sample = None,
                       ![o].range = Tail(@)]
    /\ ret' = Call("_add", o, Ok(None), None)
    /\ UNCHANGED suite

\* the generator is exhausted: the loop ends and _main() displays the result
DisplayResult(o) ==
    /\ o \in DOMAIN heap
    /\ heap[o].pc \in {"_bench_func", "_bench_sample_func"}
    /\ heap[o].sample = None
    /\ heap[o].range = <<>>
    /\ heap' = [heap EXCEPT ![o].pc = "done"]
    /\ ret' = Call("_display_result", o, Ok(None), None)
    /\ UNCHANGED suite

\* _run_subprocess(): the result of the worker started with --raw, --samples
\* and --warmups, which measured dt every time; process tells which
\* iteration of the loop started it
_run_subprocess(args, process, dt) ==
    [warmups |-> [i \in 1..args.nwarmup |-> dt],
     samples |-> [i \in 1..args.nsample |-> dt],
     process |-> process]

\* one iteration of the loop of _subprocesses()
Subprocess(o, dt) ==
    /\ o \in DOMAIN heap
    /\ heap[o].pc = "_subprocesses"
    /\ heap[o].process < heap[o].args.processes
    /\ LET run == _run_subprocess(heap[o].args, heap[o].process, dt)
       IN  heap' = [heap EXCEPT ![o].results.runs = Append(@, run),
                                ![o].process = @ + 1]
    /\ ret' = Call("_run_subprocess", o, Ok(None), None)
    /\ UNCHANGED suite

\* the loop of _subprocesses() is over: the average is printed
SubprocessesDone(o) ==
    /\ o \in DOMAIN heap
    /\ heap[o].pc = "_subprocesses"
    /\ heap[o].process >= heap[o].args.processes
    /\ heap' = [heap EXCEPT ![o].pc = "done"]
    /\ ret' = Call("_subprocesses", o, Ok(None), None)
    /\ UNCHANGED suite

NextTextRunner ==
    \/ NewTextRunner("runner")
    \/ \E op \in {"_bench_func", "_bench_sample_func"}, args \in ArgsInputs :
          Main("runner", op, args)
    \/ \E dt \in TimeInputs : Invoke("runner", dt)
    \/ AddSample("runner")
    \/ DisplayResult("runner")
    \/ \E dt \in TimeInputs : Subprocess("runner", dt)
    \/ SubprocessesDone("runner")

SpecTextRunner == Init /\ [][NextTextRunner]_vars

====
